---------------------------- MODULE Spec2Model ----------------------------
(***************************************************************************)
(* Model of the etools core: the compile-time minimal perfect hash engine  *)
(* (direct table LLUT, two-level FKS), the per-type static storage cell    *)
(* (memory::slot) and the static dispatch factory built on both.           *)
(*                                                                         *)
(* std::size_t is the 64-bit machine word.  A word is held as a function   *)
(* from byte position (0 = least significant) to a byte, so that the       *)
(* wrap-around multiplications and xor-shifts of the mixer are computed    *)
(* exactly as the code computes them.                                      *)
(***************************************************************************)
EXTENDS Integers, Naturals, Sequences, FiniteSets, TLC

(***************************************************************************)
(* Bounds of the model.                                                    *)
(***************************************************************************)
\* Largest number of keys (derived types) of a key set.
MaxKeys == 3
\* Largest seed the per-bucket multiplier search is followed to.
MaxSeed == 6
\* Largest number of emplace/construct calls followed on the storage cells.
MaxOps == 3

(***************************************************************************)
(* 64-bit words.                                                           *)
(***************************************************************************)
WordBytes == 8

Pow2(n) == 2 ^ n

\* Arrays of the code are tuples here; At(arr, i) is arr[i] of the code.
At(arr, i) == arr[i + 1]

\* The array <<F(0), ..., F(n-1)>>.
Array(F(_), n) == [i \in 1..n |-> F(i - 1)] \o <<>>

\* arr with arr[i] = v
Store(arr, i, v) == [arr EXCEPT ![i + 1] = v]

\* Bitwise operations on small naturals, bit by bit.
RECURSIVE BitAnd(_, _)
BitAnd(a, b) ==
    IF a = 0 \/ b = 0 THEN 0
    ELSE ((a % 2) * (b % 2)) + 2 * BitAnd(a \div 2, b \div 2)

RECURSIVE BitOr(_, _)
BitOr(a, b) ==
    IF a = 0 THEN b
    ELSE IF b = 0 THEN a
    ELSE (IF (a % 2) + (b % 2) > 0 THEN 1 ELSE 0) + 2 * BitOr(a \div 2, b \div 2)

\* xor of two bytes, bit by bit.
XorBit(a, b, p) == (((a \div p) + (b \div p)) % 2) * p
XorByte(a, b) ==
    XorBit(a, b, 1) + XorBit(a, b, 2) + XorBit(a, b, 4) + XorBit(a, b, 8)
    + XorBit(a, b, 16) + XorBit(a, b, 32) + XorBit(a, b, 64) + XorBit(a, b, 128)

\* static_cast<std::size_t>(n) of a value below 2^31: the bytes of the word,
\* least significant first.
ToWord(n) ==
    <<n % 256, (n \div 256) % 256, (n \div 65536) % 256, (n \div 16777216) % 256,
      0, 0, 0, 0>>

\* The value of the three low bytes of a word.
LowBits(w) == At(w, 0) + 256 * At(w, 1) + 65536 * At(w, 2)

WordByte(w, i) == IF i < WordBytes THEN At(w, i) ELSE 0

\* x >> s on a 64-bit word, 0 <= s < 64.
WordShr(w, s) ==
    LET q == s \div 8
        r == s % 8
        B(i) == ((WordByte(w, i + q) \div Pow2(r))
                  + (WordByte(w, i + q + 1) % Pow2(r)) * Pow2(8 - r)) % 256
    IN  <<B(0), B(1), B(2), B(3), B(4), B(5), B(6), B(7)>>

WordXor(a, b) ==
    LET B(i) == XorByte(At(a, i), At(b, i))
    IN  <<B(0), B(1), B(2), B(3), B(4), B(5), B(6), B(7)>>

\* A multiplier taken as mixed, without the low bit set.
WordKeep(w) == w

\* x | 1
WordOr1(w) == Store(w, 0, BitOr(At(w, 0), 1))

\* a * b modulo 2^64 (unsigned wrap-around): the columns of the schoolbook
\* product of the bytes, then the carries.
WordMul(a, b) ==
    LET
        c0 == At(a, 0) * At(b, 0)
        c1 == At(a, 0) * At(b, 1) + At(a, 1) * At(b, 0)
        c2 == At(a, 0) * At(b, 2) + At(a, 1) * At(b, 1) + At(a, 2) * At(b, 0)
        c3 == At(a, 0) * At(b, 3) + At(a, 1) * At(b, 2) + At(a, 2) * At(b, 1) + At(a, 3) * At(b, 0)
        c4 == At(a, 0) * At(b, 4) + At(a, 1) * At(b, 3) + At(a, 2) * At(b, 2) + At(a, 3) * At(b, 1) + At(a, 4) * At(b, 0)
        c5 == At(a, 0) * At(b, 5) + At(a, 1) * At(b, 4) + At(a, 2) * At(b, 3) + At(a, 3) * At(b, 2) + At(a, 4) * At(b, 1) + At(a, 5) * At(b, 0)
        c6 == At(a, 0) * At(b, 6) + At(a, 1) * At(b, 5) + At(a, 2) * At(b, 4) + At(a, 3) * At(b, 3) + At(a, 4) * At(b, 2) + At(a, 5) * At(b, 1) + At(a, 6) * At(b, 0)
        c7 == At(a, 0) * At(b, 7) + At(a, 1) * At(b, 6) + At(a, 2) * At(b, 5) + At(a, 3) * At(b, 4) + At(a, 4) * At(b, 3) + At(a, 5) * At(b, 2) + At(a, 6) * At(b, 1) + At(a, 7) * At(b, 0)
        t0 == c0
        t1 == c1 + (t0 \div 256)
        t2 == c2 + (t1 \div 256)
        t3 == c3 + (t2 \div 256)
        t4 == c4 + (t3 \div 256)
        t5 == c5 + (t4 \div 256)
        t6 == c6 + (t5 \div 256)
        t7 == c7 + (t6 \div 256)
    IN  <<t0 % 256, t1 % 256, t2 % 256, t3 % 256, t4 % 256, t5 % 256, t6 % 256, t7 % 256>>

\* 0xBF58476D1CE4E5B9 and 0x94D049BB133111EB, least significant byte first.
MixMul1 == <<185, 229, 228, 28, 109, 71, 88, 191>>
MixMul2 == <<235, 17, 49, 19, 187, 73, 208, 148>>

\* The five statements of the mixer, innermost first; each intermediate
\* value is bound before the next statement uses it.
mix_u64(x) ==
    CHOOSE x5 \in { WordXor(x4, WordShr(x4, 31)) :
           x4 \in { WordMul(x3, MixMul2) :
           x3 \in { WordXor(x2, WordShr(x2, 27)) :
           x2 \in { WordMul(x1, MixMul1) :
           x1 \in { WordXor(x0, WordShr(x0, 30)) :
           x0 \in { x } } } } } } : TRUE

\* mix_native<Key>(key): the key is cast to the machine word and mixed.
mix_native(key) == mix_u64(ToWord(key))


(***************************************************************************)
(* Bit utilities (hashing/utils.tpp) on std::size_t values below 2^31.     *)
(***************************************************************************)
\* ceil_pow2<T>(x) for a T of W value bits: decrement, smear, increment.
ceil_pow2(W, x) ==
    IF x <= 1 THEN 1
    ELSE LET x0 == x - 1
             x1 == BitOr(x0, x0 \div 2)
             x2 == BitOr(x1, x1 \div 4)
             x3 == BitOr(x2, x2 \div 16)
             x4 == IF W > 8 THEN BitOr(x3, x3 \div 256) ELSE x3
             x5 == IF W > 16 THEN BitOr(x4, x4 \div 65536) ELSE x4
         IN  IF W < 31 THEN (x5 + 1) % Pow2(W) ELSE x5 + 1

\* bit_width<R, T>(x): floor(log2(x)) + 1, 0 for x = 0.
bit_width(x) ==
    IF x = 0 THEN 0
    ELSE LET v1 == IF x \div 65536 > 0 THEN x \div 65536 ELSE x
             r1 == IF x \div 65536 > 0 THEN 16 ELSE 0
             v2 == IF v1 \div 256 > 0 THEN v1 \div 256 ELSE v1
             r2 == IF v1 \div 256 > 0 THEN r1 + 8 ELSE r1
             v3 == IF v2 \div 16 > 0 THEN v2 \div 16 ELSE v2
             r3 == IF v2 \div 16 > 0 THEN r2 + 4 ELSE r2
             v4 == IF v3 \div 4 > 0 THEN v3 \div 4 ELSE v3
             r4 == IF v3 \div 4 > 0 THEN r3 + 2 ELSE r3
             r5 == IF v4 \div 2 > 0 THEN r4 + 1 ELSE r4
         IN  r5 + 1

\* ceil_log2<R, T>(x)
ceil_log2(x) == IF x <= 1 THEN 0 ELSE bit_width(x - 1)

\* bucket_of<Key>(k, bucket_count)
bucket_of(k, bucket_count) ==
    CHOOSE b \in { BitAnd(LowBits(h), bucket_count - 1) : h \in { mix_native(k) } } : TRUE

\* top_bits<std::size_t>(x, r) of a word x, for r <= 24.
top_bits(x, r) == IF r = 0 THEN 0 ELSE LowBits(WordShr(x, 64 - r))

(***************************************************************************)
(* Key sets.  A key set is the template pack Keys..., a sequence; the key   *)
(* at declared position i (from 0) is Key(ks, i).                          *)
(***************************************************************************)
KeyWidths == {8, 16}

\* Key values the key sets are drawn from, per key type width.
KeyPool(kb) == IF kb = 8 THEN {0, 2, 5, 7, 200, 255} ELSE {1, 21, 300, 1000}

\* Keys that are looked up: the pool and values outside every key set.
ProbePool(kb) ==
    IF kb = 8 THEN KeyPool(8) \cup {1, 3, 4, 6, 8, 9, 128, 254}
    ELSE KeyPool(16) \cup {0, 2, 299, 301, 999, 1001, 65535}

Key(ks, i) == At(ks, i)
KeySet(ks) == {ks[j] : j \in 1..Len(ks)}
Distinct(ks) == \A i, j \in 1..Len(ks) : i # j => ks[i] # ks[j]

RECURSIVE SeqsUpTo(_, _)
SeqsUpTo(S, n) ==
    IF n = 0 THEN {<<>>}
    ELSE LET shorter == SeqsUpTo(S, n - 1)
         IN  shorter \cup {Append(q, x) : q \in shorter, x \in S}

\* The admissible key sets of the model: N >= 1, pairwise distinct.
KeyLists(kb) == {ks \in SeqsUpTo(KeyPool(kb), MaxKeys) : Len(ks) >= 1 /\ Distinct(ks)}

\* meta::tpack_max<T, First, Rest...>()
RECURSIVE tpack_max_from(_, _, _)
tpack_max_from(ks, i, m) ==
    IF i > Len(ks) THEN m
    ELSE tpack_max_from(ks, i + 1, IF m < ks[i] THEN ks[i] ELSE m)
tpack_max(ks) == tpack_max_from(ks, 2, ks[1])

\* meta::smallest_uint_t<V>: value bits of the index type.
smallest_uint_bits(V) == IF V <= 255 THEN 8 ELSE IF V <= 65535 THEN 16 ELSE 32
\* static_cast<index_t>(v) for index_t = smallest_uint_t<n>
index_cast(n, v) == v % Pow2(smallest_uint_bits(n))

(***************************************************************************)
(* Direct table (hashing/llut.tpp).                                        *)
(***************************************************************************)
llut_keys(ks) == Len(ks)
llut_not_found(ks) == llut_keys(ks)
\* tpack_max() + 1: for key types narrower than int the sum is an int.
llut_size(ks) == tpack_max(ks) + 1

RECURSIVE llut_fill(_, _, _)
llut_fill(table, ks, idx) ==
    IF idx = Len(ks) THEN table
    ELSE llut_fill([table EXCEPT ![Key(ks, idx)] = index_cast(Len(ks), idx)], ks, idx + 1)

\* A make_table without the fill loop: the value-initialised table holds 0
\* where no key is registered.
make_table_unfilled(ks) ==
    llut_fill([i \in 0..(llut_size(ks) - 1) |-> 0], ks, 0)

\* llut_impl::make_table(); the table is a function on 0..size()-1.
make_table(ks) ==
    llut_fill([i \in 0..(llut_size(ks) - 1) |-> index_cast(Len(ks), llut_not_found(ks))],
              ks, 0)

\* llut_impl::operator()(key) with the range check off by one: the largest
\* key is rejected.
llut_lookup_short(t, ks, key) ==
    IF key >= llut_size(ks) - 1 THEN llut_not_found(ks)
    ELSE LET v == t[key]
         IN  IF v = index_cast(Len(ks), llut_keys(ks)) THEN llut_not_found(ks) ELSE v

\* llut_impl::operator()(key) on the table t built for ks
llut_lookup(t, ks, key) ==
    IF key >= llut_size(ks) THEN llut_not_found(ks)
    ELSE LET v == t[key]
         IN  IF v = index_cast(Len(ks), llut_keys(ks)) THEN llut_not_found(ks) ELSE v

\* The reads of an operator()(key) that indexes the table before the range
\* check.
llut_reads_unchecked(ks, key) == {key}

\* The indices of _table that llut_impl::operator()(key) reads: none when
\* the range check returns early.
llut_reads(ks, key) == IF key >= llut_size(ks) THEN {} ELSE {key}

(***************************************************************************)
(* FKS table (hashing/fks.tpp, details::fks_impl).                         *)
(***************************************************************************)
fks_size(ks) == Len(ks)
fks_not_found(ks) == fks_size(ks)
fks_buckets(ks) == ceil_pow2(64, IF fks_size(ks) # 0 THEN fks_size(ks) ELSE 1)

RECURSIVE bucket_counts_fill(_, _, _, _)
bucket_counts_fill(counts, ks, M, i) ==
    IF i = Len(ks) THEN counts
    ELSE LET b == bucket_of(Key(ks, i), M)
         IN  bucket_counts_fill(Store(counts, b, At(counts, b) + 1), ks, M, i + 1)
compute_bucket_counts(ks, M) ==
    LET zero(b) == 0
    IN  bucket_counts_fill(Array(zero, M), ks, M, 0)

RECURSIVE offsets_fill(_, _, _, _)
offsets_fill(off, counts, M, b) ==
    IF b = M THEN off
    ELSE offsets_fill(Append(off, At(off, b) + At(counts, b)), counts, M, b + 1)
offsets_from_counts(counts, M) == offsets_fill(<<0>>, counts, M, 0)

compute_rbits(counts, M) ==
    LET r(b) == ceil_log2(IF At(counts, b) <= 1 THEN 1 ELSE At(counts, b) * At(counts, b))
    IN  Array(r, M)

RECURSIVE total_slots_fill(_, _, _, _)
total_slots_fill(T, r, M, b) ==
    IF b = M THEN T ELSE total_slots_fill(T + Pow2(At(r, b)), r, M, b + 1)
total_slots_from_rbits(r, M) == total_slots_fill(0, r, M, 0)

RECURSIVE base_fill(_, _, _, _, _)
base_fill(base, acc, r, M, b) ==
    IF b = M THEN base
    ELSE base_fill(Append(base, acc), acc + Pow2(At(r, b)), r, M, b + 1)
base_from_rbits(r, M) == base_fill(<<>>, 0, r, M, 0)

\* items_csr: key indices grouped per bucket, in declaration order.
RECURSIVE items_fill(_, _, _, _, _, _)
items_fill(items, fill, ks, off, M, i) ==
    IF i = Len(ks) THEN items
    ELSE LET b == bucket_of(Key(ks, i), M)
         IN  items_fill(Store(items, At(off, b) + At(fill, b), i),
                        Store(fill, b, At(fill, b) + 1), ks, off, M, i + 1)
items_csr(ks, off, M) ==
    LET zero(p) == 0
    IN  items_fill(Array(zero, Len(ks)), Array(zero, M), ks, off, M, 0)

fks_slots(ks) ==
    total_slots_from_rbits(
        compute_rbits(compute_bucket_counts(ks, fks_buckets(ks)), fks_buckets(ks)),
        fks_buckets(ks))

\* fks_impl::local_pos(b, key) on table t
fks_local_pos(t, b, key) ==
    CHOOSE p \in { top_bits(WordMul(h, At(t.local_multiplier, b)), At(t.local_bits, b)) :
                   h \in { mix_native(key) } } : TRUE

\* A mutation of operator(): the base offset of the bucket is not added.
fks_pos_no_base(t, ks, key) ==
    CHOOSE pos \in { fks_local_pos(t, b, key) :
                     b \in { BitAnd(LowBits(h), fks_buckets(ks) - 1) :
                     h \in { mix_native(key) } } } : TRUE

\* fks_impl::operator()(key), the local pos: the global slot the key probes.
fks_pos(t, ks, key) ==
    CHOOSE pos \in { At(t.base_offset, b) + fks_local_pos(t, b, key) :
                     b \in { BitAnd(LowBits(h), fks_buckets(ks) - 1) :
                     h \in { mix_native(key) } } } : TRUE

\* fks_impl::operator()(key) without the final comparison of the stored key:
\* what a table without _keys_by_index would return.
fks_lookup_unguarded(t, ks, key) ==
    CHOOSE i \in { IF v = index_cast(Len(ks), fks_size(ks)) THEN fks_size(ks) ELSE v :
                   v \in { At(t.slot_to_index, fks_pos(t, ks, key)) } } : TRUE

\* fks_impl::operator()(key) on the table t built for ks
fks_lookup(t, ks, key) ==
    CHOOSE i \in { IF v = index_cast(Len(ks), fks_size(ks)) THEN fks_size(ks)
                   ELSE IF At(t.keys_by_index, v) = key THEN v ELSE fks_size(ks) :
                   v \in { At(t.slot_to_index, fks_pos(t, ks, key)) } } : TRUE

\* optimal_mph<KeyType, AlphaScaled>::instance: TRUE when FKS is selected.
AlphaScaled == 3

\* A selector that also takes FKS when the two memory estimates are equal.
use_fks_on_tie(kb, ks) ==
    LET N == Len(ks)
        K == tpack_max(ks) + 1
        s_index == smallest_uint_bits(N) \div 8
        s_key == kb \div 8
        s_sz == WordBytes
    IN  K * s_index >= N * (AlphaScaled * s_index + 2 * s_sz + 1 + s_key)

use_fks(kb, ks) ==
    LET N == Len(ks)
        K == tpack_max(ks) + 1
        s_index == smallest_uint_bits(N) \div 8
        s_key == kb \div 8
        s_sz == WordBytes
    IN  K * s_index > N * (AlphaScaled * s_index + 2 * s_sz + 1 + s_key)


(***************************************************************************)
(* State.                                                                  *)
(***************************************************************************)
VARIABLES
    key_bits,    \* value bits of KeyType
    keys,        \* the template pack Keys..., in declaration order
    types,       \* DerivedTypes... of the dispatch factory (empty: MPH only)
    pc,          \* "make_llut", "fks_init", "fks_bucket", "registry_init", "ready",
                 \* "terminated", "destroyed", "util", "probe", "done"
    llut,        \* llut_impl: _table
    fks,         \* fks_impl: _local_bits, _local_multiplier, _base_offset,
                 \*           _slot_to_index, _keys_by_index
    build,       \* fks_impl(): the locals counts, offs and items, and the loop
                 \*   variables b and seed of step 5
    query,       \* the last lookup and what each backend returned
    slots,       \* memory::slot<T> per type: _constructed and the object in _mem
    ctor_calls,  \* per type: constructors run to completion
    dtor_calls,  \* per type: destructor calls
    events,      \* constructor/destructor calls of the last operation, in order
    last_call,   \* the last cell or factory operation and its result
    emplaces,    \* per type: successful factory emplace calls, and whether the
                 \* cell was touched by anything else
    registry,    \* facilities::registry: _index_table, and the types whose
                 \* destructors ~registry() ran, in order
    util         \* the last call of a hashing/meta utility: its arguments, its
                 \* result, and the locals of all_distinct_probe's loops

hash_vars == <<key_bits, keys, types, pc, llut, fks, build, query, util>>
cell_vars == <<slots, ctor_calls, dtor_calls, events, last_call, emplaces, registry>>
vars == <<key_bits, keys, types, pc, llut, fks, build, query,
          slots, ctor_calls, dtor_calls, events, last_call, emplaces, registry, util>>

NoLlut == [built |-> FALSE, table |-> <<>>]
NoFks == [built |-> FALSE, local_bits |-> <<>>, local_multiplier |-> <<>>,
          base_offset |-> <<>>, slot_to_index |-> <<>>, keys_by_index |-> <<>>]
NoBuild == [b |-> 0, seed |-> 1, counts |-> <<>>, offs |-> <<>>, items |-> <<>>]
NoQuery == [key |-> -1, llut |-> -1, fks |-> -1, mph |-> -1, backend |-> "none",
            reads |-> {}]

(***************************************************************************)
(* Construction of the tables.                                             *)
(***************************************************************************)
\* llut_impl::llut_impl(): _table{make_table()}
llut_impl_ctor ==
    /\ pc = "make_llut"
    /\ llut' = [built |-> TRUE, table |-> make_table(keys)]
    /\ pc' = IF types = <<>> THEN "fks_init" ELSE "ready"
    /\ UNCHANGED <<util, key_bits, keys, types, fks, build, query>>
    /\ UNCHANGED cell_vars

\* fks_impl::fks_impl(), steps 1 to 4: metadata, membership, empty slots.
fks_impl_ctor_init ==
    /\ pc = "fks_init"
    /\ LET M == fks_buckets(keys)
           N == fks_size(keys)
           counts == compute_bucket_counts(keys, M)
           offs == offsets_from_counts(counts, M)
           items == items_csr(keys, offs, M)
           rbits == compute_rbits(counts, M)
           one(b) == ToWord(1)
           member(i) == Key(keys, i)
           sentinel(i) == index_cast(N, fks_not_found(keys))
       IN  /\ build' = [b |-> 0, seed |-> 1, counts |-> counts, offs |-> offs,
                        items |-> items]
           /\ fks' = [built |-> FALSE,
                      local_bits |-> rbits,
                      base_offset |-> base_from_rbits(rbits, M),
                      local_multiplier |-> Array(one, M),
                      keys_by_index |-> Array(member, N),
                      slot_to_index |-> Array(sentinel, total_slots_from_rbits(rbits, M))]
    /\ pc' = "fks_bucket"
    /\ UNCHANGED <<util, key_bits, keys, types, llut, query>>
    /\ UNCHANGED cell_vars

\* The candidate local positions of bucket b under multiplier a.
fks_candidates(ks, items, off, s, a, r) ==
    LET pos(j) == CHOOSE p \in { top_bits(WordMul(h, a), r) :
                                 h \in { mix_native(Key(ks, At(items, off + j))) } } : TRUE
    IN  Array(pos, s)

\* A check for duplicates that accepts every candidate list.
fks_candidates_any(local, s) == TRUE

\* The check for duplicates among the candidate positions.
fks_candidates_ok(local, s) ==
    \A i \in 0..(s - 1) : \A j \in (i + 1)..(s - 1) : At(local, i) # At(local, j)

\* A commit loop that writes the position of the key within its bucket
\* instead of its declaration index.
RECURSIVE fks_commit_local(_, _, _, _, _, _, _, _)
fks_commit_local(slot_arr, N, items, off, b0, local, s, j) ==
    IF j = s THEN slot_arr
    ELSE fks_commit_local(Store(slot_arr, b0 + At(local, j), index_cast(N, j)),
                          N, items, off, b0, local, s, j + 1)

\* The commit loop: the keys of the bucket are written into the global slots.
RECURSIVE fks_commit(_, _, _, _, _, _, _, _)
fks_commit(slot_arr, N, items, off, b0, local, s, j) ==
    IF j = s THEN slot_arr
    ELSE fks_commit(Store(slot_arr, b0 + At(local, j), index_cast(N, At(items, off + j))),
                    N, items, off, b0, local, s, j + 1)

\* The table t with its multipliers and slots replaced.
fks_with(t, is_built, multiplier, slot_arr) ==
    [built |-> is_built,
     local_bits |-> t.local_bits,
     base_offset |-> t.base_offset,
     local_multiplier |-> multiplier,
     keys_by_index |-> t.keys_by_index,
     slot_to_index |-> slot_arr]

\* fks_impl::fks_impl(), step 5: one pass of the seed loop for bucket b
\* (an empty bucket keeps multiplier 1); the constructor ends after the
\* last bucket.
fks_impl_ctor_bucket ==
    /\ pc = "fks_bucket"
    /\ build.seed <= MaxSeed
    /\ LET M == fks_buckets(keys)
           N == fks_size(keys)
           b == build.b
           s == At(build.counts, b)
           off == At(build.offs, b)
           r == At(fks.local_bits, b)
       IN  IF s = 0
           THEN /\ fks' = fks_with(fks, b + 1 = M,
                                   Store(fks.local_multiplier, b, ToWord(1)),
                                   fks.slot_to_index)
                /\ build' = [build EXCEPT !.b = b + 1, !.seed = 1]
                /\ pc' = IF b + 1 = M THEN "ready" ELSE "fks_bucket"
           ELSE \E a \in { WordOr1(mix_native(build.seed)) } :
                \E local \in { fks_candidates(keys, build.items, off, s, a, r) } :
                  IF fks_candidates_ok(local, s)
                  THEN /\ fks' = fks_with(fks, b + 1 = M,
                                          Store(fks.local_multiplier, b, a),
                                          fks_commit(fks.slot_to_index, N, build.items, off,
                                                     At(fks.base_offset, b), local, s, 0))
                       /\ build' = [build EXCEPT !.b = b + 1, !.seed = 1]
                       /\ pc' = IF b + 1 = M THEN "ready" ELSE "fks_bucket"
                  ELSE /\ build' = [build EXCEPT !.seed = build.seed + 1]
                       /\ UNCHANGED <<fks, pc>>
    /\ UNCHANGED <<util, key_bits, keys, types, llut, query>>
    /\ UNCHANGED cell_vars

\* optimal_mph<KeyType>::instance<Keys...>()(key): the selected backend.
mph_lookup(key) ==
    IF use_fks(key_bits, keys) THEN fks_lookup(fks, keys, key)
    ELSE llut_lookup(llut.table, keys, key)

\* A lookup of one key in both backends and in the selected one.
Lookup(k) ==
    /\ pc = "ready"
    /\ types = <<>>
    /\ \E l \in { llut_lookup(llut.table, keys, k) }, f \in { fks_lookup(fks, keys, k) },
          m \in { mph_lookup(k) } :
          query' = [key |-> k, llut |-> l, fks |-> f, mph |-> m,
                    backend |-> IF use_fks(key_bits, keys) THEN "fks" ELSE "llut",
                    reads |-> llut_reads(keys, k)]
    /\ UNCHANGED <<util, key_bits, keys, types, pc, llut, fks, build>>
    /\ UNCHANGED cell_vars

(***************************************************************************)
(* The derived types of the factory tests (tests/facilities/                *)
(* test_registry.cpp): their keys and constructors.  An argument is a      *)
(* record [type, cat, val]; a parameter is "int", "const string&",         *)
(* "string&&", "unique_ptr&&" or "const array&".                           *)
(***************************************************************************)
TypeKey(T) ==
    CASE T = "A" -> 2 [] T = "B" -> 5 [] T = "C" -> 7
      [] T = "D" -> 9 [] T = "E" -> 0 [] T = "F" -> 255
      [] T = "Add" -> 10 [] T = "Sub" -> 20 [] T = "Mul" -> 30 [] T = "Div" -> 40

Ctors(T) ==
    CASE T = "A" -> {[id |-> "default", params |-> <<>>, nothrow |-> TRUE]}
      [] T = "B" -> {[id |-> "int", params |-> <<"int">>, nothrow |-> TRUE]}
      [] T = "C" -> {[id |-> "copy", params |-> <<"const string&">>, nothrow |-> FALSE],
                     [id |-> "move", params |-> <<"string&&">>, nothrow |-> TRUE]}
      [] T = "D" -> {[id |-> "move", params |-> <<"unique_ptr&&">>, nothrow |-> TRUE]}
      [] T = "E" -> {[id |-> "copy", params |-> <<"const string&">>, nothrow |-> FALSE],
                     [id |-> "move", params |-> <<"string&&">>, nothrow |-> FALSE]}
      [] T = "F" -> {[id |-> "array", params |-> <<"const array&">>, nothrow |-> TRUE]}
      [] T \in {"Add", "Sub", "Mul", "Div"} ->
                    {[id |-> "copy", params |-> <<"const string&">>, nothrow |-> TRUE]}

\* The argument lists of the calls.
ArgLists ==
    { <<>>,
      <<[type |-> "int", cat |-> "rvalue", val |-> 1]>>,
      <<[type |-> "int", cat |-> "rvalue", val |-> 2]>>,
      <<[type |-> "string", cat |-> "lvalue", val |-> "hello"]>>,
      <<[type |-> "string", cat |-> "rvalue", val |-> "world"]>>,
      <<[type |-> "unique_ptr", cat |-> "lvalue", val |-> 7]>>,
      <<[type |-> "unique_ptr", cat |-> "rvalue", val |-> 7]>>,
      <<[type |-> "array", cat |-> "lvalue", val |-> 0]>> }

\* Reference binding of the forwarded argument Arg&& to a parameter.
Binds(param, arg) ==
    CASE param = "int" -> arg.type = "int"
      [] param = "const string&" -> arg.type = "string"
      [] param = "string&&" -> arg.type = "string" /\ arg.cat = "rvalue"
      [] param = "unique_ptr&&" -> arg.type = "unique_ptr" /\ arg.cat = "rvalue"
      [] param = "const array&" -> arg.type = "array"

Viable(T, args) ==
    { c \in Ctors(T) : /\ Len(c.params) = Len(args)
                       /\ \A i \in 1..Len(args) : Binds(c.params[i], args[i]) }

\* std::is_constructible_v<T, Args&&...>
is_constructible(T, args) == Viable(T, args) # {}

\* Overload resolution: an rvalue binds to T&& rather than to const T&.
select_ctor(T, args) ==
    CHOOSE c \in Viable(T, args) : \A d \in Viable(T, args) : d.id = "move" => c.id = "move"

\* The object T(args...) built by the selected constructor.
NoObject == [type |-> "none"]
Construct(T, args) ==
    [type |-> T, ctor |-> select_ctor(T, args).id,
     vals |-> [i \in 1..Len(args) |-> args[i].val]]

\* The outcomes of running the selected constructor: FALSE it returns, TRUE
\* it throws (only a constructor that is not noexcept).
Throws(T, args) == IF select_ctor(T, args).nothrow THEN {FALSE} ELSE {FALSE, TRUE}

(***************************************************************************)
(* memory::slot<T> (memory/slot.tpp).  A cell is [constructed, obj]: the   *)
(* flag _constructed and the object living in _mem (NoObject: none).       *)
(***************************************************************************)
TypeSet == {types[i] : i \in 1..Len(types)}
EmptyCell == [constructed |-> FALSE, obj |-> NoObject]
NoCall == [n |-> 0, op |-> "none", type |-> "none", key |-> -1, args |-> <<>>,
           result |-> "none", before |-> <<>>]
Snapshot == [slots |-> slots, ctor_calls |-> ctor_calls, dtor_calls |-> dtor_calls]

\* A get() that hands out the storage without looking at _constructed.
slot_get_unchecked(cell, T) == T

\* slot<T>::get(): the address of the storage of T (named T), or null.
slot_get(cell, T) == IF ~cell.constructed THEN "null" ELSE T

\* _constructed is set and _mem holds no object: a constructor threw in
\* emplace.  A destructor call on this storage is undefined behaviour.
Indeterminate(cell) == cell.constructed /\ cell.obj = NoObject
Crashes(cell) == IF Indeterminate(cell) THEN {FALSE, TRUE} ELSE {FALSE}

\* An emplace that constructs over a live object without destroying it.
slot_emplace_leaky(T, args, throws) ==
    [slots |-> [slots EXCEPT ![T] =
                    [constructed |-> TRUE,
                     obj |-> IF throws THEN NoObject ELSE Construct(T, args)]],
     ctor_calls |-> [ctor_calls EXCEPT ![T] = @ + (IF throws THEN 0 ELSE 1)],
     dtor_calls |-> dtor_calls,
     events |-> IF throws THEN <<"throw">> ELSE <<"ctor">>,
     result |-> IF throws THEN "throw" ELSE T]

\* An emplace that calls destroy() without looking at _constructed, on a
\* destroy() without its own check.
slot_emplace_blind(T, args, throws) ==
    [slots |-> [slots EXCEPT ![T] =
                    [constructed |-> TRUE,
                     obj |-> IF throws THEN NoObject ELSE Construct(T, args)]],
     ctor_calls |-> [ctor_calls EXCEPT ![T] = @ + (IF throws THEN 0 ELSE 1)],
     dtor_calls |-> [dtor_calls EXCEPT ![T] = @ + 1],
     events |-> <<"dtor">> \o (IF throws THEN <<"throw">> ELSE <<"ctor">>),
     result |-> IF throws THEN "throw" ELSE T]

\* An emplace on one storage shared by all types: constructing T ends what
\* the other cells held.
slot_emplace_shared(T, args, throws) ==
    [slots |-> [U \in DOMAIN slots |->
                    IF U = T
                    THEN [constructed |-> TRUE,
                          obj |-> IF throws THEN NoObject ELSE Construct(T, args)]
                    ELSE EmptyCell],
     ctor_calls |-> [ctor_calls EXCEPT ![T] = @ + (IF throws THEN 0 ELSE 1)],
     dtor_calls |-> [dtor_calls EXCEPT ![T] = @ + (IF slots[T].constructed THEN 1 ELSE 0)],
     events |-> (IF slots[T].constructed THEN <<"dtor">> ELSE <<>>)
                \o (IF throws THEN <<"throw">> ELSE <<"ctor">>),
     result |-> IF throws THEN "throw" ELSE T]

\* slot<T>::emplace(args...): if (_constructed) destroy(); _constructed =
\* true; return new (&_mem) T(args...).  The result holds the variables
\* after the call, the constructor and destructor calls in order, and what
\* the call returns ("throw": the exception of the constructor).
slot_emplace_run(T, args, throws) ==
    [slots |-> [slots EXCEPT ![T] =
                    [constructed |-> TRUE,
                     obj |-> IF throws THEN NoObject ELSE Construct(T, args)]],
     ctor_calls |-> [ctor_calls EXCEPT ![T] = @ + (IF throws THEN 0 ELSE 1)],
     dtor_calls |-> [dtor_calls EXCEPT ![T] = @ + (IF slots[T].constructed THEN 1 ELSE 0)],
     events |-> (IF slots[T].constructed THEN <<"dtor">> ELSE <<>>)
                \o (IF throws THEN <<"throw">> ELSE <<"ctor">>),
     result |-> IF throws THEN "throw" ELSE T]

\* A destroy() without the early return on an empty cell.
slot_destroy_unguarded(T) ==
    [slots |-> [slots EXCEPT ![T] = EmptyCell],
     ctor_calls |-> ctor_calls,
     dtor_calls |-> [dtor_calls EXCEPT ![T] = @ + 1],
     events |-> <<"dtor">>, result |-> "void"]

\* slot<T>::destroy(): nothing on an empty cell; else ~T() and the flag is
\* cleared.
slot_destroy_run(T) ==
    IF ~slots[T].constructed
    THEN [slots |-> slots, ctor_calls |-> ctor_calls, dtor_calls |-> dtor_calls,
          events |-> <<>>, result |-> "void"]
    ELSE [slots |-> [slots EXCEPT ![T] = EmptyCell],
          ctor_calls |-> ctor_calls,
          dtor_calls |-> [dtor_calls EXCEPT ![T] = @ + 1],
          events |-> <<"dtor">>, result |-> "void"]

\* The variables of the cells after a call with effect e.
Apply(op, T, k, args, e) ==
    /\ slots' = e.slots
    /\ ctor_calls' = e.ctor_calls
    /\ dtor_calls' = e.dtor_calls
    /\ events' = e.events
    /\ last_call' = [n |-> last_call.n + 1, op |-> op, type |-> T, key |-> k,
                     args |-> args, result |-> e.result, before |-> Snapshot]

\* A call that leaves the cells alone and returns r.
NoEffect(r) ==
    [slots |-> slots, ctor_calls |-> ctor_calls, dtor_calls |-> dtor_calls,
     events |-> <<>>, result |-> r]

CanCall == pc = "ready" /\ types # <<>> /\ last_call.n < MaxOps
Touched(T) == [emplaces EXCEPT ![T].pure = FALSE]

\* slot<T>::instance().emplace(args...)
slot_emplace(T, args) ==
    /\ CanCall
    /\ is_constructible(T, args)
    /\ \E throws \in Throws(T, args), crash \in Crashes(slots[T]) :
          /\ Apply("emplace", T, -1, args, slot_emplace_run(T, args, throws))
          /\ pc' = IF crash THEN "terminated" ELSE pc
    /\ emplaces' = Touched(T)
    /\ UNCHANGED <<util, key_bits, keys, types, llut, fks, build, query, registry>>

\* slot<T>::instance().construct(args...): the assertion stops a debug
\* build on a live cell; a build with NDEBUG goes on into emplace.
slot_construct(T, args) ==
    /\ CanCall
    /\ is_constructible(T, args)
    /\ \E throws \in Throws(T, args), crash \in Crashes(slots[T]),
          ndebug \in (IF slots[T].constructed THEN {FALSE, TRUE} ELSE {TRUE}) :
          IF ndebug
          THEN /\ Apply("construct", T, -1, args, slot_emplace_run(T, args, throws))
               /\ pc' = IF crash THEN "terminated" ELSE pc
          ELSE /\ Apply("construct", T, -1, args, NoEffect("abort"))
               /\ pc' = "terminated"
    /\ emplaces' = Touched(T)
    /\ UNCHANGED <<util, key_bits, keys, types, llut, fks, build, query, registry>>

\* slot<T>::instance().destroy()
slot_destroy(T) ==
    /\ CanCall
    /\ \E crash \in Crashes(slots[T]) :
          /\ Apply("destroy", T, -1, <<>>, slot_destroy_run(T))
          /\ pc' = IF crash THEN "terminated" ELSE pc
    /\ emplaces' = Touched(T)
    /\ UNCHANGED <<util, key_bits, keys, types, llut, fks, build, query, registry>>

\* slot<T>::instance().get()
slot_get_call(T) ==
    /\ CanCall
    /\ Apply("get", T, -1, <<>>, NoEffect(slot_get(slots[T], T)))
    /\ UNCHANGED <<util, key_bits, keys, types, pc, llut, fks, build, query, emplaces, registry>>

(***************************************************************************)
(* factories::static_factory (factories/static_factory.tpp).               *)
(***************************************************************************)
\* static_factory::capacity
capacity == Len(types)

\* meta::nth_t<index, DerivedTypes...>
nth_t(index) == types[index + 1]

\* try_emplace_if_constructible<T>: the if constexpr condition.
try_emplace_if_constructible(T, args) == T # "none" /\ is_constructible(T, args)

\* A dispatch that ignores the index of the table and takes the first type.
dispatch_first(index) == nth_t(0)

\* dispatch_fold: the branch with index == Is selects the type; without a
\* matching branch the result stays null.
dispatch_fold(index) == IF index < Len(types) THEN nth_t(index) ELSE "none"

\* Arguments handed on with std::move: every one becomes an rvalue.
forward_as_rvalue(args) == [i \in DOMAIN args |-> [args[i] EXCEPT !.cat = "rvalue"]]

\* std::forward<Args>(args)...: each argument keeps its value category.
forward(args) == args

\* The key values the factory is called with: the registered keys, one
\* unregistered key inside the LLUT table and one beyond it.
FactoryKeys == KeySet(keys) \cup {1, 254}

\* static_factory::emplace(key, args...).  The function is noexcept: a
\* constructor that throws ends the program (std::terminate).
static_factory_emplace(k, args) ==
    /\ CanCall
    /\ \E index \in { mph_lookup(k) } :
          IF index >= capacity
          THEN /\ Apply("factory_emplace", "none", k, args, NoEffect("null"))
               /\ UNCHANGED <<pc, emplaces>>
          ELSE \E T \in { dispatch_fold(index) }, fwd \in { forward(args) } :
                 IF ~try_emplace_if_constructible(T, fwd)
                 THEN /\ Apply("factory_emplace", T, k, args, NoEffect("null"))
                      /\ UNCHANGED <<pc, emplaces>>
                 ELSE \E throws \in Throws(T, fwd), crash \in Crashes(slots[T]) :
                        /\ Apply("factory_emplace", T, k, args,
                                 slot_emplace_run(T, fwd, throws))
                        /\ pc' = IF throws \/ crash THEN "terminated" ELSE pc
                        /\ emplaces' =
                               IF throws THEN Touched(T)
                               ELSE [emplaces EXCEPT ![T].n = @ + 1, ![T].last = args]
    /\ UNCHANGED <<util, key_bits, keys, types, llut, fks, build, query, registry>>

(***************************************************************************)
(* facilities::registry (factories/registry.tpp) over the command types of *)
(* the tests: AddCommand 10, SubtractCommand 20, MultiplyCommand 30,       *)
(* DivideCommand 40, each built from one std::string.                      *)
(***************************************************************************)
\* it: the position _it of the iterator the caller holds (-1: none held);
\* from: its position before the last operator++; visited: the objects the
\* last range-for loop saw.
NoRegistry == [index_table |-> <<>>, destroyed |-> <<>>, visited |-> <<>>,
               it |-> -1, from |-> -1]

\* ConstructorArgs&&...: one std::string rvalue.
RegistryArgs ==
    { <<[type |-> "string", cat |-> "rvalue", val |-> "First"]>>,
      <<[type |-> "string", cat |-> "rvalue", val |-> "Second"]>> }

\* The keys the registry is called with: the registered ones and 999.
RegistryKeys == KeySet(keys) \cup {999}

\* registry::make_index_table(): mapping{key, Is} in declaration order.
make_index_table == [i \in 1..Len(types) |-> [key |-> TypeKey(types[i]), index |-> i - 1]]

\* std::sort of the index table by key, as an insertion sort.
RECURSIVE sort_insert(_, _)
sort_insert(sorted, e) ==
    IF sorted = <<>> THEN <<e>>
    ELSE IF e.key < Head(sorted).key THEN <<e>> \o sorted
    ELSE <<Head(sorted)>> \o sort_insert(Tail(sorted), e)
RECURSIVE sort_by_key(_)
sort_by_key(tbl) ==
    IF tbl = <<>> THEN <<>>
    ELSE sort_insert(sort_by_key(SubSeq(tbl, 1, Len(tbl) - 1)), tbl[Len(tbl)])

\* registry::registry(): the routing table and the sorted index table.
registry_ctor ==
    /\ pc = "registry_init"
    /\ registry' = [NoRegistry EXCEPT !.index_table = sort_by_key(make_index_table)]
    /\ pc' = "ready"
    /\ UNCHANGED <<util, key_bits, keys, types, llut, fks, build, query>>
    /\ UNCHANGED <<slots, ctor_calls, dtor_calls, events, last_call, emplaces>>

\* std::lower_bound(_index_table, key): the first position whose key is not
\* less than key (Len: cend()).
lower_bound(tbl, key) ==
    CHOOSE p \in 0..Len(tbl) :
        /\ \A i \in 0..(p - 1) : At(tbl, i).key < key
        /\ p = Len(tbl) \/ ~(At(tbl, p).key < key)

\* The type whose route construct(key) takes: "none" for an unknown key.
registry_route(key) ==
    LET it == lower_bound(registry.index_table, key)
    IN  IF it = Len(registry.index_table) \/ At(registry.index_table, it).key # key
        THEN "none"
        ELSE nth_t(At(registry.index_table, it).index)

\* A mutation of the getter: the registry sees only the objects built from
\* its own constructor arguments, as if it kept cells of its own.
route_getter_own(p) ==
    IF slots[nth_t(p)].constructed /\ slots[nth_t(p)].obj.vals \in {<<"First">>, <<"Second">>}
    THEN nth_t(p) ELSE "null"

\* _routing_table[p].getter(): slot<T>::instance().get() of entry p.
route_getter(p) == slot_get(slots[nth_t(p)], nth_t(p))

\* registry_iterator::advance_if_null() from position p: the first position
\* from p on whose getter is not null (Len(types): _end).
advance_if_null(p) ==
    CHOOSE q \in p..Len(types) :
        /\ \A i \in p..(q - 1) : route_getter(i) = "null"
        /\ q = Len(types) \/ route_getter(q) # "null"

\* A mutation of the iterator's constructor: _it is kept where it was given.
registry_iterator_raw(p) == p

\* registry_iterator(it, end): the position after the constructor's
\* advance_if_null().
registry_iterator(p) == advance_if_null(p)

\* registry::begin() and registry::end()
registry_begin == registry_iterator(0)
registry_end == registry_iterator(Len(types))

\* A mutation of find(): the liveness test of the route is left out.
registry_find_unchecked(key) ==
    LET it == lower_bound(registry.index_table, key)
    IN  IF \/ it = Len(registry.index_table)
           \/ At(registry.index_table, it).key # key
        THEN registry_end
        ELSE registry_iterator(At(registry.index_table, it).index)

\* registry::find(key): an iterator at the route of a key whose object is
\* alive, end() for any other key.
registry_find(key) ==
    LET it == lower_bound(registry.index_table, key)
    IN  IF \/ it = Len(registry.index_table)
           \/ At(registry.index_table, it).key # key
           \/ route_getter(At(registry.index_table, it).index) = "null"
        THEN registry_end
        ELSE registry_iterator(At(registry.index_table, it).index)

\* A mutation of operator++: the null entries after ++_it are not skipped.
registry_iterator_inc_raw(p) == p + 1

\* operator++ of an iterator at position p: ++_it; advance_if_null().
registry_iterator_inc(p) == advance_if_null(p + 1)

\* for (auto* cmd : reg): the objects seen from position p up to end().
RECURSIVE registry_range(_, _)
registry_range(p, seen) ==
    IF p = registry_end THEN seen
    ELSE registry_range(registry_iterator_inc(p), Append(seen, route_getter(p)))

\* What an iterator at position p names: the type of its entry, or "end".
Entry(p) == IF p = Len(types) THEN "end" ELSE nth_t(p)

\* registry::construct(key, args...): the constructor of the route is
\* slot<T>::construct, whose assertion stops a debug build on a live cell.
registry_construct(k, args) ==
    /\ CanCall
    /\ \E T \in { registry_route(k) } :
          IF T = "none"
          THEN /\ Apply("registry_construct", "none", k, args, NoEffect("null"))
               /\ UNCHANGED pc
          ELSE \E ndebug \in (IF slots[T].constructed THEN {FALSE, TRUE} ELSE {TRUE}) :
                 IF ndebug
                 THEN /\ Apply("registry_construct", T, k, args,
                               slot_emplace_run(T, args, FALSE))
                      /\ UNCHANGED pc
                 ELSE /\ Apply("registry_construct", T, k, args, NoEffect("abort"))
                      /\ pc' = "terminated"
    /\ UNCHANGED <<util, key_bits, keys, types, llut, fks, build, query, emplaces, registry>>

\* registry::get(key)
registry_get(k) ==
    /\ CanCall
    /\ \E it \in { registry_find(k) } :
          IF it = registry_end
          THEN Apply("registry_get", "none", k, <<>>, NoEffect("null"))
          ELSE Apply("registry_get", nth_t(it), k, <<>>, NoEffect(route_getter(it)))
    /\ UNCHANGED <<util, key_bits, keys, types, pc, llut, fks, build, query, emplaces, registry>>

\* registry::destroy(key)
registry_destroy(k) ==
    /\ CanCall
    /\ \E it \in { registry_find(k) } :
          IF it = registry_end
          THEN Apply("registry_destroy", "none", k, <<>>, NoEffect("void"))
          ELSE Apply("registry_destroy", nth_t(it), k, <<>>, slot_destroy_run(nth_t(it)))
    /\ UNCHANGED <<util, key_bits, keys, types, pc, llut, fks, build, query, emplaces, registry>>

\* A call that reads the registry and leaves every cell as it is.
Observe(op, T, k, r) ==
    /\ pc = "ready"
    /\ registry.index_table # <<>>
    /\ last_call' = [last_call EXCEPT !.op = op, !.type = T, !.key = k, !.args = <<>>,
                                      !.result = r, !.before = Snapshot]
    /\ events' = <<>>
    /\ UNCHANGED <<util, key_bits, keys, types, pc, llut, fks, build, query>>
    /\ UNCHANGED <<slots, ctor_calls, dtor_calls, emplaces>>

\* auto it = reg.find(key): the caller keeps the iterator.
registry_find_call(k) ==
    \E it \in { registry_find(k) } :
        /\ Observe("registry_find", Entry(it), k, Entry(it))
        /\ registry' = [registry EXCEPT !.it = it, !.from = -1]

\* auto it = reg.begin()
registry_begin_call ==
    \E it \in { registry_begin } :
        /\ Observe("registry_begin", Entry(it), -1, Entry(it))
        /\ registry' = [registry EXCEPT !.it = it, !.from = -1]

\* ++it on the iterator the caller holds, which is not at end().
registry_increment ==
    /\ registry.it \in 0..(Len(types) - 1)
    /\ \E it \in { registry_iterator_inc(registry.it) } :
          /\ Observe("registry_increment", Entry(it), -1, Entry(it))
          /\ registry' = [registry EXCEPT !.it = it, !.from = registry.it]

\* for (auto* cmd : reg) seen.push_back(cmd)
registry_iterate ==
    \E seen \in { registry_range(registry_begin, <<>>) } :
        /\ Observe("registry_iterate", "none", -1, "void")
        /\ registry' = [registry EXCEPT !.visited = seen]

\* The loop of registry::~registry() from entry i of the index table on: the
\* destructor of each route is slot<T>::destroy().  run holds the cells, the
\* destructor counts and the types destroyed so far.
RECURSIVE registry_dtor_run(_, _, _)
registry_dtor_run(tbl, i, run) ==
    IF i = Len(tbl) THEN run
    ELSE LET T == nth_t(At(tbl, i).index)
         IN  IF ~run.slots[T].constructed
             THEN registry_dtor_run(tbl, i + 1, run)
             ELSE registry_dtor_run(tbl, i + 1,
                      [slots |-> [run.slots EXCEPT ![T] = EmptyCell],
                       dtor_calls |-> [run.dtor_calls EXCEPT ![T] = @ + 1],
                       destroyed |-> Append(run.destroyed, T)])

\* registry::~registry()
registry_dtor ==
    /\ pc = "ready"
    /\ registry.index_table # <<>>
    /\ \E run \in { registry_dtor_run(registry.index_table, 0,
                         [slots |-> slots, dtor_calls |-> dtor_calls, destroyed |-> <<>>]) } :
          /\ Apply("registry_dtor", "none", -1, <<>>,
                   [slots |-> run.slots, ctor_calls |-> ctor_calls,
                    dtor_calls |-> run.dtor_calls,
                    events |-> [i \in 1..Len(run.destroyed) |-> "dtor"],
                    result |-> "void"])
          /\ registry' = [registry EXCEPT !.destroyed = run.destroyed]
    /\ pc' = "destroyed"
    /\ UNCHANGED <<util, key_bits, keys, types, llut, fks, build, query, emplaces>>

(***************************************************************************)
(* The utilities of hashing/utils.tpp and meta/utility.tpp, called with a  *)
(* type T of key_bits value bits.                                          *)
(***************************************************************************)
NoUtil == [fn |-> "none", x |-> 0, r |-> 0, result |-> 0, wrapped |-> 0,
           distinct |-> TRUE, cap |-> 0, used |-> <<>>, slots |-> <<>>,
           i |-> 0, h |-> 0, probes |-> 0, longest |-> 0,
           max |-> ToWord(0), size |-> ToWord(0), K |-> ToWord(0)]

\* w + 1 modulo 2^64
WordInc(w) ==
    [i \in 1..WordBytes |-> IF \A j \in 1..(i - 1) : w[j] = 255
                            THEN (w[i] + 1) % 256 ELSE w[i]]

\* static_cast<T>(w) for an unsigned T of W bits
WordTrunc(w, W) == [i \in 1..WordBytes |-> IF i <= W \div 8 THEN w[i] ELSE 0]

\* numeric_limits<KeyType>::max() for a KeyType of W bits
TypeMax(W) == [i \in 1..WordBytes |-> IF i <= W \div 8 THEN 255 ELSE 0]

\* llut_impl::size(): tpack_max<KeyType, Keys...>() + 1 for the maximum m.  A
\* KeyType narrower than int is promoted to int, where m + 1 is exact; a wider
\* one is added in KeyType itself, modulo 2^W; the sum is returned as size_t.
llut_size_of(W, m) == IF W < 32 THEN WordInc(m) ELSE WordTrunc(WordInc(m), W)

\* optimal_mph::instance(): K = static_cast<size_t>(tpack_max<...>()) + 1u
span_K(m) == WordInc(m)

\* A mutation of ceil_pow2_saturate: the clamp at max_pow2 is left out.
ceil_pow2_saturate_unclamped(W, x) == ceil_pow2(W, x)

\* ceil_pow2_saturate<T>(x), W = numeric_limits<T>::digits
ceil_pow2_saturate(W, x) ==
    IF x <= 1 THEN 1
    ELSE LET max_pow2 == Pow2(W - 1)
         IN  IF x > max_pow2 THEN max_pow2 ELSE ceil_pow2(W, x)

\* A mutation of top_bits: the low r bits are taken.
top_bits_low(W, x, r) == x % Pow2(r)

\* top_bits<T>(x, r) of a T of W <= 16 bits: x >> (W - r)
top_bits_of(W, x, r) == IF r = 0 THEN 0 ELSE x \div Pow2(W - r)

\* A mutation of the bitmap test: the word index is ignored.
bitmap_test_any_word(bitset, w, b) == \E e \in bitset : e[2] = b

\* bitset[w] & m, m = 1ull << b; the bitset is the set of its set bits <<w, b>>.
bitmap_test(bitset, w, b) == <<w, b>> \in bitset

\* The loop of all_distinct_bitmap from key i on.
RECURSIVE all_distinct_bitmap_from(_, _, _)
all_distinct_bitmap_from(ks, i, bitset) ==
    IF i = Len(ks) THEN TRUE
    ELSE LET v == At(ks, i)
             w == v \div 64
             b == BitAnd(v, 63)
         IN  IF bitmap_test(bitset, w, b) THEN FALSE
             ELSE all_distinct_bitmap_from(ks, i + 1, bitset \cup {<<w, b>>})

\* all_distinct_bitmap<T, N>(keys)
all_distinct_bitmap(ks) == all_distinct_bitmap_from(ks, 0, {})

\* all_distinct_probe: cap = ceil_pow2<size_t>(wanted), wanted = N * 2.
probe_cap(N) == ceil_pow2(64, N * 2)

\* all_distinct_probe: h = mix_native(k) & (cap - 1)
probe_home(k, cap) ==
    CHOOSE h \in { BitAnd(LowBits(m), cap - 1) : m \in { mix_native(k) } } : TRUE

\* A mutation of the linear probe: h is not advanced.
probe_stay(h, cap) == h

\* all_distinct_probe: h = (h + 1) & (cap - 1)
probe_next(h, cap) == BitAnd(h + 1, cap - 1)

\* ceil_pow2_saturate<T>(x) and ceil_pow2<T>(x) for one x.
ceil_pow2_saturate_call(x) ==
    /\ pc = "util"
    /\ key_bits <= 16
    /\ util' = [NoUtil EXCEPT !.fn = "ceil_pow2_saturate", !.x = x,
                              !.result = ceil_pow2_saturate(key_bits, x),
                              !.wrapped = ceil_pow2(key_bits, x)]
    /\ pc' = "done"
    /\ UNCHANGED <<key_bits, keys, types, llut, fks, build, query>>
    /\ UNCHANGED cell_vars

\* top_bits<T>(x, r) for one x and one r.
top_bits_call(x, r) ==
    /\ pc = "util"
    /\ key_bits <= 16
    /\ util' = [NoUtil EXCEPT !.fn = "top_bits", !.x = x, !.r = r,
                              !.result = top_bits_of(key_bits, x, r)]
    /\ pc' = "done"
    /\ UNCHANGED <<key_bits, keys, types, llut, fks, build, query>>
    /\ UNCHANGED cell_vars

\* llut_impl<KeyType, Keys...>::size() and the K of optimal_mph::instance<Keys...>()
\* for a pack of distinct keys: keys, and with top the maximum of KeyType too.
span_call(top) ==
    /\ pc = "util"
    /\ Distinct(keys)
    /\ top \/ keys # <<>>
    /\ \E m \in { IF top THEN TypeMax(key_bits) ELSE ToWord(tpack_max(keys)) } :
          util' = [NoUtil EXCEPT !.fn = "span", !.max = m,
                                 !.size = llut_size_of(key_bits, m),
                                 !.K = span_K(m)]
    /\ pc' = "done"
    /\ UNCHANGED <<key_bits, keys, types, llut, fks, build, query>>
    /\ UNCHANGED cell_vars

\* all_distinct_fast<T, N>(keys): the bitmap for T of at most 16 bits, else
\* all_distinct_probe up to the entry of its first linear probe.
all_distinct_fast ==
    /\ pc = "util"
    /\ IF key_bits <= 16
       THEN /\ util' = [NoUtil EXCEPT !.fn = "all_distinct_bitmap",
                                      !.distinct = all_distinct_bitmap(keys)]
            /\ pc' = "done"
       ELSE IF Len(keys) < 2
       THEN /\ util' = [NoUtil EXCEPT !.fn = "all_distinct_probe", !.distinct = TRUE]
            /\ pc' = "done"
       ELSE \E cap \in { probe_cap(Len(keys)) } :
               /\ util' = [NoUtil EXCEPT !.fn = "all_distinct_probe", !.cap = cap,
                                         !.used = [j \in 1..cap |-> 0],
                                         !.slots = [j \in 1..cap |-> 0],
                                         !.h = probe_home(At(keys, 0), cap)]
               /\ pc' = "probe"
    /\ UNCHANGED <<key_bits, keys, types, llut, fks, build, query>>
    /\ UNCHANGED cell_vars

\* One pass of the for (;;) of all_distinct_probe for key i.  probes counts
\* the occupied slots of other keys passed for key i (it stops counting above
\* N), longest the most slots looked at for one key.
all_distinct_probe_step ==
    /\ pc = "probe"
    /\ \E k \in { At(keys, util.i) } :
          IF At(util.used, util.h) = 0
          THEN \E u \in { [util EXCEPT !.used = Store(@, util.h, 1),
                                       !.slots = Store(@, util.h, k),
                                       !.i = @ + 1,
                                       !.probes = 0,
                                       !.longest = IF util.probes + 1 > @
                                                   THEN util.probes + 1 ELSE @] } :
                  IF u.i = Len(keys)
                  THEN /\ util' = [u EXCEPT !.distinct = TRUE]
                       /\ pc' = "done"
                  ELSE /\ util' = [u EXCEPT !.h = probe_home(At(keys, u.i), util.cap)]
                       /\ pc' = "probe"
          ELSE IF At(util.slots, util.h) = k
          THEN /\ util' = [util EXCEPT !.distinct = FALSE,
                                       !.longest = IF util.probes + 1 > @
                                                   THEN util.probes + 1 ELSE @]
               /\ pc' = "done"
          ELSE /\ util' = [util EXCEPT !.h = probe_next(util.h, util.cap),
                                       !.probes = IF @ > Len(keys) THEN @ ELSE @ + 1]
               /\ pc' = "probe"
    /\ UNCHANGED <<key_bits, keys, types, llut, fks, build, query>>
    /\ UNCHANGED cell_vars

NoCells ==
    /\ slots = <<>>
    /\ ctor_calls = <<>>
    /\ dtor_calls = <<>>
    /\ events = <<>>
    /\ last_call = NoCall
    /\ emplaces = <<>>
    /\ registry = NoRegistry

\* The MPH engine alone: both backends are instantiated for a key set.
Init ==
    /\ key_bits \in KeyWidths
    /\ keys \in KeyLists(key_bits)
    /\ types = <<>>
    /\ pc = "make_llut"
    /\ llut = NoLlut
    /\ fks = NoFks
    /\ build = NoBuild
    /\ query = NoQuery
    /\ util = NoUtil
    /\ NoCells

Next ==
    \/ llut_impl_ctor
    \/ fks_impl_ctor_init
    \/ fks_impl_ctor_bucket
    \/ \E k \in ProbePool(key_bits) : Lookup(k)

Spec == Init /\ [][Next]_vars

\* The factories of the tests: A, B, C, D (keys 2, 5, 7, 9: LLUT is selected)
\* and E, B, F (keys 0, 5, 255: FKS is selected).
Bindings == { <<"A", "B", "C", "D">>, <<"E", "B", "F">> }

\* A factory and its cells, all empty; only the selected backend is built.
InitFactory ==
    /\ key_bits = 8
    /\ types \in Bindings
    /\ keys = [i \in 1..Len(types) |-> TypeKey(types[i])]
    /\ pc = IF use_fks(key_bits, keys) THEN "fks_init" ELSE "make_llut"
    /\ llut = NoLlut
    /\ fks = NoFks
    /\ build = NoBuild
    /\ query = NoQuery
    /\ util = NoUtil
    /\ slots = [T \in TypeSet |-> EmptyCell]
    /\ ctor_calls = [T \in TypeSet |-> 0]
    /\ dtor_calls = [T \in TypeSet |-> 0]
    /\ events = <<>>
    /\ last_call = NoCall
    /\ emplaces = [T \in TypeSet |-> [n |-> 0, pure |-> TRUE, last |-> <<>>]]
    /\ registry = NoRegistry

NextFactory ==
    \/ llut_impl_ctor
    \/ fks_impl_ctor_init
    \/ fks_impl_ctor_bucket
    \/ \E T \in TypeSet, args \in ArgLists : slot_construct(T, args)
    \/ \E T \in TypeSet, args \in ArgLists : slot_emplace(T, args)
    \/ \E T \in TypeSet : slot_destroy(T)
    \/ \E T \in TypeSet : slot_get_call(T)
    \/ \E k \in FactoryKeys, args \in ArgLists : static_factory_emplace(k, args)

SpecFactory == InitFactory /\ [][NextFactory]_vars

\* The registries: the command types in the order of the tests, and three of
\* them declared in an order that is not the order of their keys.
RegistryBindings == { <<"Add", "Sub", "Mul", "Div">>, <<"Mul", "Add", "Sub">> }

\* A registry before its constructor, all cells empty.
InitRegistry ==
    /\ key_bits = 32
    /\ types \in RegistryBindings
    /\ keys = [i \in 1..Len(types) |-> TypeKey(types[i])]
    /\ pc = "registry_init"
    /\ llut = NoLlut
    /\ fks = NoFks
    /\ build = NoBuild
    /\ query = NoQuery
    /\ util = NoUtil
    /\ slots = [T \in TypeSet |-> EmptyCell]
    /\ ctor_calls = [T \in TypeSet |-> 0]
    /\ dtor_calls = [T \in TypeSet |-> 0]
    /\ events = <<>>
    /\ last_call = NoCall
    /\ emplaces = [T \in TypeSet |-> [n |-> 0, pure |-> TRUE, last |-> <<>>]]
    /\ registry = NoRegistry

NextRegistry ==
    \/ registry_ctor
    \/ \E k \in RegistryKeys, args \in RegistryArgs : registry_construct(k, args)
    \/ \E k \in RegistryKeys : registry_get(k)
    \/ \E k \in RegistryKeys : registry_destroy(k)
    \/ \E k \in RegistryKeys : registry_find_call(k)
    \/ registry_begin_call
    \/ registry_increment
    \/ registry_iterate
    \/ registry_dtor

SpecRegistry == InitRegistry /\ [][NextRegistry]_vars

\* A registry and a dispatch factory over the same command types.  The MPH
\* table of the factory is a constexpr object; the registry is still to be
\* constructed.
SharedArgs == { <<>>, <<[type |-> "string", cat |-> "lvalue", val |-> "Factory"]>> }

InitShared ==
    /\ key_bits = 8
    /\ types \in RegistryBindings
    /\ keys = [i \in 1..Len(types) |-> TypeKey(types[i])]
    /\ pc = "registry_init"
    /\ llut = [built |-> TRUE, table |-> make_table(keys)]
    /\ fks = NoFks
    /\ build = NoBuild
    /\ query = NoQuery
    /\ util = NoUtil
    /\ slots = [T \in TypeSet |-> EmptyCell]
    /\ ctor_calls = [T \in TypeSet |-> 0]
    /\ dtor_calls = [T \in TypeSet |-> 0]
    /\ events = <<>>
    /\ last_call = NoCall
    /\ emplaces = [T \in TypeSet |-> [n |-> 0, pure |-> TRUE, last |-> <<>>]]
    /\ registry = NoRegistry

NextShared ==
    \/ registry_ctor
    \/ \E k \in FactoryKeys, args \in SharedArgs : static_factory_emplace(k, args)
    \/ \E k \in RegistryKeys, args \in RegistryArgs : registry_construct(k, args)
    \/ \E k \in RegistryKeys : registry_get(k)
    \/ \E k \in RegistryKeys : registry_destroy(k)

SpecShared == InitShared /\ [][NextShared]_vars

\* The utilities alone: T is uint8_t, uint16_t, uint32_t or uint64_t, and keys
\* is any array of T, duplicates included.
UtilWidths == {8, 16, 32, 64}
UtilPool(kb) ==
    IF kb = 8 THEN {5, 69, 200, 255}
    ELSE IF kb = 16 THEN {1, 65, 300, 65535}
    ELSE {5, 6, 12, 100000}

\* The arguments of ceil_pow2_saturate: every uint8_t, and the uint16_t
\* around the powers of two and the clamp.
CeilInputs(kb) ==
    IF kb = 8 THEN 0..255
    ELSE {0, 1, 2, 3, 4, 5, 255, 256, 257, 16383, 16384, 16385,
          32767, 32768, 32769, 40000, 65534, 65535}

TopInputs(kb) ==
    IF kb = 8 THEN {0, 1, 15, 128, 165, 240, 255}
    ELSE {0, 1, 255, 32768, 43981, 65280, 65535}

InitUtil ==
    /\ key_bits \in UtilWidths
    /\ keys \in SeqsUpTo(UtilPool(key_bits), MaxKeys)
    /\ types = <<>>
    /\ pc = "util"
    /\ llut = NoLlut
    /\ fks = NoFks
    /\ build = NoBuild
    /\ query = NoQuery
    /\ util = NoUtil
    /\ NoCells

NextUtil ==
    \/ \E x \in CeilInputs(key_bits) : ceil_pow2_saturate_call(x)
    \/ \E x \in TopInputs(key_bits), r \in 0..key_bits : top_bits_call(x, r)
    \/ \E top \in BOOLEAN : span_call(top)
    \/ all_distinct_fast
    \/ all_distinct_probe_step

SpecUtil == InitUtil /\ [][NextUtil]_vars

\* The loop of all_distinct_probe runs on once it is entered.
SpecUtilFair == SpecUtil /\ WF_vars(all_distinct_probe_step)

(***************************************************************************)
(* Properties of the MPH engine.  A lookup has been made when query.key is *)
(* a key value; N is the number of registered keys.                        *)
(***************************************************************************)
Queried == pc = "ready" /\ query.key # NoQuery.key
Registered(k) == k \in KeySet(keys)
\* The index stored in the slot that key k probes in the FKS table.
ProbedSlot(k) == At(fks.slot_to_index, fks_pos(fks, keys, k))

\* C1: for every admissible key set and both backends, the lookup of the
\* registered key declared at position i returns exactly i.
C1_DeclarationOrder ==
    Queried =>
        \A i \in 0..(Len(keys) - 1) :
            Key(keys, i) = query.key =>
                query.llut = i /\ query.fks = i /\ query.mph = i

\* C1 happens: the third declared key was looked up in a table whose bucket
\* needed a second seed, and both backends answered 2.
C1_Witness ==
    /\ Queried
    /\ Len(keys) >= 3
    /\ query.key = Key(keys, 2)
    /\ query.llut = 2 /\ query.fks = 2
    /\ \E b \in 0..(fks_buckets(keys) - 1) :
           At(build.counts, b) >= 2 /\ At(fks.local_multiplier, b) # WordOr1(mix_native(1))

\* C2: the lookup of a key value that is not registered returns the sentinel
\* in both backends, also when the probed FKS slot holds a registered key.
C2_MembershipRejection ==
    (Queried /\ ~Registered(query.key)) =>
        /\ query.llut = llut_not_found(keys)
        /\ query.fks = fks_not_found(keys)
        /\ query.mph = Len(keys)

\* C2 happens: an unregistered key probed a slot that holds the index of a
\* registered key, and the lookup answered the sentinel.
C2_Witness ==
    /\ Queried
    /\ ~Registered(query.key)
    /\ ProbedSlot(query.key) < Len(keys)
    /\ query.fks = fks_not_found(keys)

\* C6: for LLUT and for FKS, not_found() equals size() and both equal the
\* number of registered keys.
C6_SentinelIsSize ==
    pc = "ready" =>
        /\ llut_not_found(keys) = llut_size(keys)
        /\ llut_size(keys) = Len(keys)
        /\ fks_not_found(keys) = fks_size(keys)
        /\ fks_size(keys) = Len(keys)

\* C7: for the same key type and key list, LLUT and FKS return the same
\* result for every looked-up key value, registered or not.
C7_BackendsAgree == Queried => query.llut = query.fks

\* C7 happens: a key value beyond the LLUT table (the range check answers)
\* was looked up in both backends of a table of at least two keys.
C7_Witness ==
    /\ Queried
    /\ Len(keys) >= 2
    /\ query.key >= llut_size(keys)
    /\ query.llut = query.fks

\* C8: the lookups of two different registered keys differ and both are
\* below N, in both backends.
C8_Injective ==
    pc = "ready" =>
        \A i, j \in 0..(Len(keys) - 1) :
            i # j =>
                /\ fks_lookup(fks, keys, Key(keys, i)) # fks_lookup(fks, keys, Key(keys, j))
                /\ fks_lookup(fks, keys, Key(keys, i)) < Len(keys)
                /\ llut_lookup(llut.table, keys, Key(keys, i))
                       # llut_lookup(llut.table, keys, Key(keys, j))
                /\ llut_lookup(llut.table, keys, Key(keys, i)) < Len(keys)

\* C8 happens: a finished table of three keys, two of which share a bucket.
C8_Witness ==
    /\ pc = "ready"
    /\ fks.built
    /\ Len(keys) >= 3
    /\ \E b \in 0..(fks_buckets(keys) - 1) : At(build.counts, b) >= 2

(***************************************************************************)
(* Properties of the storage cells and of the dispatch factory.  They are  *)
(* stated on the last call: last_call.before holds the cells before it.    *)
(***************************************************************************)
Called(op) == types # <<>> /\ last_call.op = op
Before == last_call.before
CellsUntouched ==
    /\ slots = Before.slots
    /\ ctor_calls = Before.ctor_calls
    /\ dtor_calls = Before.dtor_calls
    /\ events = <<>>

\* C3: when the constructor of T throws in construct or emplace, get()
\* answers as before the call: an empty cell stays empty, a live cell still
\* holds the object it held, and no destructor ran on it.
C3_ThrowKeepsCell ==
    ((Called("construct") \/ Called("emplace")) /\ last_call.result = "throw") =>
        /\ slot_get(slots[last_call.type], last_call.type)
               = slot_get(Before.slots[last_call.type], last_call.type)
        /\ slots[last_call.type].obj = Before.slots[last_call.type].obj
        /\ dtor_calls = Before.dtor_calls

\* C4: a factory emplace whose key maps to index i constructs the i-th
\* type when it is constructible from the arguments with their value
\* categories, and only that type; when it is not, the call returns null
\* and no cell changes.
C4_DispatchArgFilter ==
    (Called("factory_emplace") /\ Registered(last_call.key)) =>
        \A i \in 0..(Len(types) - 1) :
            Key(keys, i) = last_call.key =>
                IF is_constructible(nth_t(i), last_call.args)
                THEN /\ last_call.type = nth_t(i)
                     /\ \A U \in TypeSet \ {nth_t(i)} : slots[U] = Before.slots[U]
                     /\ \/ /\ last_call.result = nth_t(i)
                            /\ slots[nth_t(i)].constructed
                            /\ slots[nth_t(i)].obj = Construct(nth_t(i), last_call.args)
                            /\ ctor_calls[nth_t(i)] = Before.ctor_calls[nth_t(i)] + 1
                        \/ /\ last_call.result = "throw"
                            /\ pc = "terminated"
                ELSE last_call.result = "null" /\ CellsUntouched

\* C4 happens: a registered key was given arguments its type cannot take
\* while that type's cell was live, and the call returned null.
C4_Witness ==
    /\ Called("factory_emplace")
    /\ Registered(last_call.key)
    /\ last_call.type \in TypeSet
    /\ ~is_constructible(last_call.type, last_call.args)
    /\ Before.slots[last_call.type].constructed
    /\ last_call.result = "null"

\* C5: an emplace on a cell that returns runs exactly one destructor, before
\* the construction, when the cell was live, and none when it was empty;
\* afterwards the cell is live.
C5_ReplaceOrder ==
    (Called("emplace") /\ last_call.result # "throw") =>
        /\ events = IF Before.slots[last_call.type].constructed
                    THEN <<"dtor", "ctor">> ELSE <<"ctor">>
        /\ dtor_calls[last_call.type] = Before.dtor_calls[last_call.type]
               + (IF Before.slots[last_call.type].constructed THEN 1 ELSE 0)
        /\ slots[last_call.type].constructed

\* C5 happens: an emplace replaced a live object.
C5_Witness ==
    /\ Called("emplace")
    /\ Before.slots[last_call.type].constructed
    /\ Before.slots[last_call.type].obj # NoObject
    /\ events = <<"dtor", "ctor">>
    /\ slots[last_call.type].obj # Before.slots[last_call.type].obj

\* C9: a factory emplace with a key that is not registered returns null and
\* constructs and destroys nothing in any cell.
C9_DispatchMiss ==
    (Called("factory_emplace") /\ ~Registered(last_call.key)) =>
        last_call.result = "null" /\ CellsUntouched

\* C9 happens: an unregistered key was given arguments the first type can
\* take, while a cell was live.
C9_Witness ==
    /\ Called("factory_emplace")
    /\ ~Registered(last_call.key)
    /\ is_constructible(nth_t(0), last_call.args)
    /\ \E T \in TypeSet : slots[T].constructed
    /\ last_call.result = "null"

\* C10: after n >= 1 successful factory emplaces on the key of a type whose
\* cell was empty at first and was touched by nothing else, the type has
\* been constructed n times and destroyed n - 1 times, and the cell holds
\* one live object built from the last arguments.
C10_ReplacementAccounting ==
    (types # <<>> /\ pc # "terminated") =>
        \A T \in TypeSet :
            (emplaces[T].pure /\ emplaces[T].n >= 1) =>
                /\ ctor_calls[T] = emplaces[T].n
                /\ dtor_calls[T] = emplaces[T].n - 1
                /\ slots[T].constructed
                /\ slots[T].obj = Construct(T, emplaces[T].last)

\* C10 happens: three successful emplaces on one key.
C10_Witness ==
    /\ types # <<>>
    /\ \E T \in TypeSet :
          /\ emplaces[T].pure
          /\ emplaces[T].n >= 3
          /\ ctor_calls[T] = emplaces[T].n
          /\ dtor_calls[T] = emplaces[T].n - 1

\* C11: a construct, emplace or destroy on the cell of one type, directly or
\* through the factory, leaves the cell of every other type as it was: the
\* same liveness, the same object, no constructor and no destructor call.
C11_CellsPartitioned ==
    (types # <<>> /\ last_call.op \in {"construct", "emplace", "destroy", "factory_emplace"}) =>
        \A U \in TypeSet \ {last_call.type} :
            /\ slots[U] = Before.slots[U]
            /\ ctor_calls[U] = Before.ctor_calls[U]
            /\ dtor_calls[U] = Before.dtor_calls[U]

\* C11 happens: the cell of one type was replaced or destroyed while the
\* cell of another type held a live object, and both types are live or
\* were live together.
C11_Witness ==
    /\ types # <<>>
    /\ last_call.op \in {"emplace", "destroy", "factory_emplace"}
    /\ last_call.type \in TypeSet
    /\ Before.slots[last_call.type].obj # NoObject
    /\ slots[last_call.type] # Before.slots[last_call.type]
    /\ \E U \in TypeSet \ {last_call.type} :
          slots[U].constructed /\ slots[U].obj # NoObject

\* C12: get() of a cell is non-null exactly when the cell is live (its
\* flag is set): null before any call, non-null after a construct or an
\* emplace that returned, null after a destroy; a get() call returns what
\* the liveness of the cell before it says.
C12_GetTracksLiveness ==
    types # <<>> =>
        /\ \A T \in TypeSet :
              (slot_get(slots[T], T) # "null") <=> slots[T].constructed
        /\ last_call.n = 0 =>
              \A T \in TypeSet : slot_get(slots[T], T) = "null"
        /\ (last_call.op \in {"construct", "emplace"} /\ last_call.result = last_call.type) =>
              slot_get(slots[last_call.type], last_call.type) = last_call.type
        /\ last_call.op = "destroy" =>
              slot_get(slots[last_call.type], last_call.type) = "null"
        /\ last_call.op = "get" =>
              last_call.result = (IF Before.slots[last_call.type].constructed
                                  THEN last_call.type ELSE "null")

\* C12 happens: a get() returned null on a cell that was constructed and
\* destroyed before.
C12_Witness ==
    /\ Called("get")
    /\ last_call.result = "null"
    /\ ctor_calls[last_call.type] >= 1
    /\ dtor_calls[last_call.type] >= 1

\* C13: a destroy on a live cell runs the destructor of T once and leaves
\* the cell empty; a destroy on an empty cell runs no destructor and
\* changes nothing.
C13_DestroyOnce ==
    Called("destroy") =>
        IF Before.slots[last_call.type].constructed
        THEN /\ events = <<"dtor">>
             /\ dtor_calls[last_call.type] = Before.dtor_calls[last_call.type] + 1
             /\ slots[last_call.type] = EmptyCell
        ELSE CellsUntouched

\* C13 happens: a destroy was repeated on a cell whose object had been
\* destroyed already.
C13_Witness ==
    /\ Called("destroy")
    /\ ~Before.slots[last_call.type].constructed
    /\ ctor_calls[last_call.type] = 1
    /\ dtor_calls[last_call.type] = 1

\* The memory estimates of the selector: span * indexWidth for the LLUT and
\* N * (alpha * indexWidth + 2 * wordSize + 1 + sizeof(K)) for FKS.
IndexWidth(N) == IF N < 256 THEN 1 ELSE IF N < 65536 THEN 2 ELSE 4
MemLLUT(ks) ==
    ((CHOOSE m \in KeySet(ks) : \A k \in KeySet(ks) : k <= m) + 1) * IndexWidth(Len(ks))
MemFKS(kb, ks) ==
    Len(ks) * (AlphaScaled * IndexWidth(Len(ks)) + 2 * WordBytes + 1 + kb \div 8)

\* C15: the selector returns the FKS backend exactly when the LLUT estimate
\* is strictly greater than the FKS estimate, and the LLUT otherwise; for
\* uint16 keys {2,5,7,8,9} it is the LLUT, for {1,10000,60000} it is FKS.
C15_Selector ==
    /\ Queried =>
          /\ query.backend \in {"fks", "llut"}
          /\ (query.backend = "fks") <=> (MemLLUT(keys) > MemFKS(key_bits, keys))
    /\ ~use_fks(16, <<2, 5, 7, 8, 9>>)
    /\ use_fks(16, <<1, 10000, 60000>>)

\* C15 happens: a lookup went to the LLUT of a key set whose two estimates
\* are equal.
C15_Witness ==
    /\ Queried
    /\ query.backend = "llut"
    /\ MemLLUT(keys) = MemFKS(key_bits, keys)

\* C16: a lookup in the LLUT of a key greater than the largest registered
\* key returns the sentinel and reads no entry of the table.
C16_OutOfRange ==
    (Queried /\ \A k \in KeySet(keys) : query.key > k) =>
        /\ query.llut = llut_not_found(keys)
        /\ query.reads = {}

\* C16 happens: the key looked up is the first one beyond the table.
C16_Witness ==
    /\ Queried
    /\ Len(keys) >= 2
    /\ \E m \in KeySet(keys) :
          /\ \A k \in KeySet(keys) : k <= m
          /\ query.key = m + 1
    /\ query.llut = Len(keys)
    /\ query.reads = {}

\* The keys of bucket b, as declaration indices.
BucketKeys(b) ==
    { i \in 0..(Len(keys) - 1) : bucket_of(Key(keys, i), fks_buckets(keys)) = b }

\* C17: after the FKS build, the multiplier of every non-empty bucket is
\* odd, the positions top_bits(mix(k) * a[b], rbits[b]) of the keys of the
\* bucket are pairwise distinct within its 2^rbits[b] >= s^2 slots, and the
\* slot of every key still holds the index of that key.  The table is
\* looked at in the state the build ends in; lookups leave it unchanged.
C17_BucketsCollisionFree ==
    (types = <<>> /\ fks.built /\ query = NoQuery) =>
        \A b \in 0..(fks_buckets(keys) - 1) :
            BucketKeys(b) # {} =>
                /\ At(At(fks.local_multiplier, b), 0) % 2 = 1
                /\ Pow2(At(fks.local_bits, b)) >= Cardinality(BucketKeys(b)) * Cardinality(BucketKeys(b))
                /\ \A i \in BucketKeys(b) :
                      /\ fks_local_pos(fks, b, Key(keys, i)) < Pow2(At(fks.local_bits, b))
                      /\ At(fks.slot_to_index,
                            At(fks.base_offset, b) + fks_local_pos(fks, b, Key(keys, i))) = i
                      /\ \A j \in BucketKeys(b) \ {i} :
                            fks_local_pos(fks, b, Key(keys, i))
                                # fks_local_pos(fks, b, Key(keys, j))

\* C17 happens: a built table has a bucket of three keys, or a bucket of
\* two keys whose first multipliers collided.
C17_Witness ==
    /\ types = <<>>
    /\ fks.built
    /\ query = NoQuery
    /\ \E b \in 0..(fks_buckets(keys) - 1) :
          /\ Cardinality(BucketKeys(b)) >= 2
          /\ At(fks.local_multiplier, b) # WordOr1(mix_native(1))
          /\ At(At(fks.local_multiplier, b), 0) % 2 = 1

\* The type has a constructor from an rvalue reference that takes arg.
HasMoveOverload(T, arg) ==
    \E c \in Ctors(T) : c.id = "move" /\ Len(c.params) = 1 /\ Binds(c.params[1], arg)

\* C18: in a factory emplace with one argument, an rvalue is taken by the
\* rvalue-reference constructor of the type when it has one; an lvalue is
\* taken only by a copy or lvalue-reference constructor, never by the
\* moving one, and a type with nothing but a moving constructor is not
\* built from it.
C18_ValueCategory ==
    (Called("factory_emplace") /\ last_call.type \in TypeSet /\ Len(last_call.args) = 1) =>
        /\ (last_call.args[1].cat = "rvalue" /\ HasMoveOverload(last_call.type, last_call.args[1])) =>
              \/ /\ last_call.result = last_call.type
                 /\ slots[last_call.type].obj.ctor = "move"
                 /\ slots[last_call.type].obj.vals = <<last_call.args[1].val>>
              \/ last_call.result = "throw"
        /\ last_call.args[1].cat = "lvalue" =>
              \/ last_call.result = "null" /\ CellsUntouched
              \/ /\ last_call.result = last_call.type
                 /\ slots[last_call.type].obj.ctor # "move"
                 /\ slots[last_call.type].obj.vals = <<last_call.args[1].val>>
              \/ last_call.result = "throw"

\* C18 happens: a type with both overloads was built from an lvalue by its
\* copying constructor, replacing an object built from an rvalue by the
\* moving one.
C18_Witness ==
    /\ Called("factory_emplace")
    /\ last_call.type \in TypeSet
    /\ Len(last_call.args) = 1
    /\ last_call.args[1].cat = "lvalue"
    /\ last_call.result = last_call.type
    /\ slots[last_call.type].obj.ctor = "copy"
    /\ Before.slots[last_call.type].obj # NoObject
    /\ Before.slots[last_call.type].obj.ctor = "move"

(***************************************************************************)
(* Properties of the registry.                                             *)
(***************************************************************************)
\* The types of seq in reverse order.
Reversed(seq) == [i \in 1..Len(seq) |-> seq[Len(seq) + 1 - i]]
\* The types alive before the last call, in declaration order.
LiveBefore == SelectSeq(types, LAMBDA T : Before.slots[T].constructed)

\* C19: a registry construct on a registered key whose object is already
\* constructed returns the existing instance: nothing is constructed and
\* the existing object is not destroyed.
C19_ConstructKeepsExisting ==
    (Called("registry_construct") /\ last_call.type \in TypeSet
        /\ Before.slots[last_call.type].constructed) =>
        /\ last_call.result = last_call.type
        /\ CellsUntouched

\* C20: the registry destructor destroys every live object exactly once,
\* and the destructor calls run in the reverse of the declaration order.
C20_ReverseTeardown ==
    Called("registry_dtor") =>
        /\ \A T \in TypeSet :
              /\ ~slots[T].constructed
              /\ dtor_calls[T] = Before.dtor_calls[T]
                     + (IF Before.slots[T].constructed THEN 1 ELSE 0)
        /\ registry.destroyed = Reversed(LiveBefore)

(***************************************************************************)
(* Properties of the registry's lookups and iterators.                     *)
(***************************************************************************)
\* The registered type of a key.
TypeOfKey(k) == CHOOSE T \in TypeSet : TypeKey(T) = k

\* The routing-table entries whose object is constructed, in table order.
LiveNow == SelectSeq(types, LAMBDA T : slots[T].constructed)

\* C21: for a registered key whose object is not constructed (never built or
\* destroyed), get(key) returns null and find(key) returns end(); for one whose
\* object is constructed they return that very object, never a neighbour.
C21_FindOnlyLive ==
    /\ Called("registry_get") /\ last_call.key \in KeySet(keys)
           => last_call.result =
                  IF slots[TypeOfKey(last_call.key)].constructed
                  THEN TypeOfKey(last_call.key) ELSE "null"
    /\ Called("registry_find") /\ last_call.key \in KeySet(keys)
           => /\ last_call.result =
                     IF slots[TypeOfKey(last_call.key)].constructed
                     THEN TypeOfKey(last_call.key) ELSE "end"
              /\ ~slots[TypeOfKey(last_call.key)].constructed
                     => registry.it = registry_end

\* find() of a key whose object was destroyed, while an entry after it in the
\* routing table is constructed, has returned end().
C21_Witness ==
    /\ Called("registry_find")
    /\ last_call.key \in KeySet(keys)
    /\ dtor_calls[TypeOfKey(last_call.key)] > 0
    /\ ~slots[TypeOfKey(last_call.key)].constructed
    /\ \E i \in 1..Len(types), j \in 1..Len(types) :
           /\ i < j
           /\ types[i] = TypeOfKey(last_call.key)
           /\ slots[types[j]].constructed
    /\ last_call.result = "end"

\* C22: a loop from begin() to end() sees exactly the constructed objects,
\* each once, in the order of the routing table.
C22_IterationOrder ==
    Called("registry_iterate") => registry.visited = LiveNow

\* A loop over <Mul 30, Add 10, Sub 20>, declared out of key order, saw Mul and Sub
\* in that order, and skipped the unconstructed Add between them.
C22_Witness ==
    /\ Called("registry_iterate")
    /\ types = <<"Mul", "Add", "Sub">>
    /\ registry.visited = <<"Mul", "Sub">>

\* C23: operator++ leaves the iterator on the first constructed entry after
\* the one it was at, or on end() if there is none, whether or not the object
\* it was at is still alive.
C23_IncrementSkips ==
    Called("registry_increment")
        => /\ registry.it \in (registry.from + 1)..Len(types)
           /\ \A i \in (registry.from + 1)..(registry.it - 1) :
                  ~slots[nth_t(i)].constructed
           /\ registry.it = Len(types) \/ slots[nth_t(registry.it)].constructed

\* The iterator was at entry 0, whose object has since been destroyed; ++
\* skipped the unconstructed entry 1 and landed on the constructed entry 2.
C23_Witness ==
    /\ Called("registry_increment")
    /\ registry.from = 0
    /\ dtor_calls[nth_t(0)] = 1
    /\ ~slots[nth_t(0)].constructed
    /\ registry.it = 2
    /\ slots[nth_t(2)].constructed

(***************************************************************************)
(* Properties of the utilities.                                            *)
(***************************************************************************)
\* The powers of two a T of W bits holds, and the smallest one not below x.
PowersOfTwo(W) == { Pow2(e) : e \in 0..(W - 1) }
SmallestPow2AtLeast(W, x) ==
    CHOOSE y \in PowersOfTwo(W) :
        y >= x /\ \A z \in PowersOfTwo(W) : z >= x => y <= z

\* C24: for x <= 2^(W-1), ceil_pow2_saturate(x) is the smallest power of two
\* >= x (1 for x = 0) and ceil_pow2(x) agrees with it; for larger x it is
\* 2^(W-1), where ceil_pow2(x) has wrapped to 0.
C24_Saturate ==
    util.fn = "ceil_pow2_saturate"
        => IF util.x <= Pow2(key_bits - 1)
           THEN /\ util.result = SmallestPow2AtLeast(key_bits, util.x)
                /\ util.wrapped = util.result
           ELSE /\ util.result = Pow2(key_bits - 1)
                /\ util.wrapped = 0

\* ceil_pow2_saturate<uint16_t>(32769) was clamped to 32768.
C24_Witness ==
    /\ util.fn = "ceil_pow2_saturate"
    /\ key_bits = 16
    /\ util.x = 32769
    /\ util.result = 32768
    /\ util.wrapped = 0

\* C25: for 0 <= r <= W, top_bits(x, r) is the number formed by the r most
\* significant bits of x: it is below 2^r, it is x with the low W - r bits
\* dropped, r = 0 gives 0 and r = W gives x.
C25_TopBits ==
    util.fn = "top_bits"
        => /\ util.result < Pow2(util.r)
           /\ util.result * Pow2(key_bits - util.r) <= util.x
           /\ util.x < (util.result + 1) * Pow2(key_bits - util.r)
           /\ util.r = 0 => util.result = 0
           /\ util.r = key_bits => util.result = util.x

\* top_bits<uint8_t>(0xF0, 4) was 0x0F.
C25_Witness ==
    /\ util.fn = "top_bits"
    /\ key_bits = 8
    /\ util.x = 240
    /\ util.r = 4
    /\ util.result = 15

\* C26: all_distinct_fast returns true exactly when the keys are pairwise
\* distinct, on the bitmap path and on the probe path.
C26_Distinctness ==
    pc = "done" /\ util.fn \in {"all_distinct_bitmap", "all_distinct_probe"}
        => (util.distinct <=> Distinct(keys))

\* The bitmap accepted 5 and 69, which share the bit index 5 of two words.
C26_Witness ==
    /\ pc = "done"
    /\ util.fn = "all_distinct_bitmap"
    /\ \E a, b \in 1..Len(keys) : keys[a] = 5 /\ keys[b] = 69
    /\ util.distinct

\* C30: in all_distinct_probe, cap is a power of two of at least 2N, no key
\* looks at more than N slots, and the loops come to their end.
C30_ProbeTerminates ==
    /\ [](util.fn = "all_distinct_probe"
            => /\ util.longest <= Len(keys)
               /\ pc = "probe" => /\ util.probes < Len(keys)
                                  /\ util.cap >= 2 * Len(keys)
                                  /\ util.cap \in PowersOfTwo(16))
    /\ (pc = "probe" ~> pc = "done")

\* Three distinct keys with one home slot: the third looked at three slots.
C30_Witness ==
    /\ pc = "done"
    /\ util.fn = "all_distinct_probe"
    /\ Len(keys) = 3
    /\ util.distinct
    /\ util.longest = 3

\* a < b for two 64-bit words
WordLess(a, b) ==
    \E i \in 1..WordBytes : a[i] < b[i] /\ \A j \in (i + 1)..WordBytes : a[j] = b[j]

\* C27: for every pack of distinct keys, one holding the maximum of its key
\* type included, the LLUT capacity and the selector's span are max(keys) + 1
\* without wrap-around: both are above the largest key.
C27_SpanNoWrap ==
    util.fn = "span" => WordLess(util.max, util.size) /\ WordLess(util.max, util.K)

\* C28: for every key looked up, registered or not, the FKS lookup takes a
\* bucket b < M and a slot inside the slice [base[b], base[b] + 2^rbits[b]) of
\* that bucket, which lies inside _slot_to_index, and an index read there that
\* is not the sentinel is below N, so the read of _keys_by_index is in bounds.
C28_FksInBounds ==
    (Queried /\ types = <<>>) =>
        \A b \in { bucket_of(query.key, fks_buckets(keys)) } :
        \A pos \in { fks_pos(fks, keys, query.key) } :
            /\ b < fks_buckets(keys)
            /\ b < Len(fks.base_offset) /\ b < Len(fks.local_bits)
            /\ At(fks.base_offset, b) <= pos
            /\ pos < At(fks.base_offset, b) + Pow2(At(fks.local_bits, b))
            /\ pos < Len(fks.slot_to_index)
            /\ Len(fks.slot_to_index) = fks_slots(keys)
            /\ At(fks.slot_to_index, pos) # index_cast(Len(keys), fks_size(keys))
                   => At(fks.slot_to_index, pos) < Len(fks.keys_by_index)

\* An unregistered key probed a bucket other than the first and read the
\* sentinel from a slot of that bucket's slice.
C28_Witness ==
    /\ Queried /\ types = <<>>
    /\ ~Registered(query.key)
    /\ Len(keys) = 3
    /\ bucket_of(query.key, fks_buckets(keys)) > 0
    /\ At(fks.slot_to_index, fks_pos(fks, keys, query.key))
           = index_cast(Len(keys), fks_size(keys))

(***************************************************************************)
(* Properties of a registry and a factory over the same types.             *)
(***************************************************************************)
\* What get() of type T's cell answers in the cells S: the object, or none.
Answer(S, T) == IF S[T].constructed THEN S[T].obj ELSE NoObject

\* C29 as stated: an emplace through the factory leaves what the registry
\* returns for every key as it was.
C29_Independent ==
    Called("factory_emplace") =>
        \A T \in TypeSet : Answer(slots, T) = Answer(Before.slots, T)

\* C29: the registry and the factory work on the one cell of each type.  After
\* a successful emplace of T through the factory the registry finds, for T's
\* key, the object the factory built; get() answers by the state of that cell
\* whoever filled it; destroy() through the registry empties it.
C29_SharedCell ==
    /\ Called("factory_emplace") /\ last_call.type # "none"
            /\ last_call.result = last_call.type
           => /\ registry_find(TypeKey(last_call.type)) # registry_end
              /\ nth_t(registry_find(TypeKey(last_call.type))) = last_call.type
              /\ slots[last_call.type].obj = Construct(last_call.type, last_call.args)
    /\ Called("registry_get") /\ last_call.key \in KeySet(keys)
           => last_call.result =
                  IF slots[TypeOfKey(last_call.key)].constructed
                  THEN TypeOfKey(last_call.key) ELSE "null"
    /\ Called("registry_destroy") /\ last_call.type # "none"
           => ~slots[last_call.type].constructed

\* get() of the registry returned an object that the factory had built.
C29_Witness ==
    /\ Called("registry_get")
    /\ last_call.type # "none"
    /\ last_call.result = last_call.type
    /\ slots[last_call.type].obj.vals = <<"Factory">>
    /\ emplaces[last_call.type].n = 1

==============================================================================
